---- MODULE Spec2Model ----
(***************************************************************************)
(* A model of codesign-verify: the public facade of src/lib.rs             *)
(* (CodeSignVerifier, SignatureContext) and the macOS Context of           *)
(* src/macos/context.rs, which reads a certificate's property graph and    *)
(* the signing-information dictionary.                                     *)
(*                                                                         *)
(* Conventions.  An Option is a sequence: None is <<>> and Some(x) is      *)
(* <<x>>.  A CoreFoundation dictionary is a record whose fields hold what  *)
(* find() returns for each key, as an Option.  A CoreFoundation object     *)
(* (CFType) is a record [kind, str, items]: kind is its run-time type,     *)
(* items the elements of an array, and str what CFString::to_string()      *)
(* produces when the object is wrapped as a CFString.  For a real string   *)
(* str is Some(its text).  Wrapping any other object as a CFString is an   *)
(* unchecked cast, whose behaviour is undefined: str then ranges over      *)
(* every outcome, None for the process aborting and Some(g) for a text g   *)
(* read out of the foreign object.                                         *)
(***************************************************************************)
EXTENDS Integers, Sequences, FiniteSets, TLC

VARIABLES verifier, outcome, nverify, ret, first, crashed, pc, local, tret

vars == <<verifier, outcome, nverify, ret, first, crashed, pc, local, tret>>

(***************************************************************************)
(* Bounds of the model.                                                    *)
(***************************************************************************)
NumVerifiers == 2
MaxEntries == 2
MaxHashLen == 2
NumThreads == 2

VerifierIds == 1..NumVerifiers
Threads == 1..NumThreads

None == <<>>
Some(x) == <<x>>

Texts == {"x", "y"}
Garbage == "z"
Bytes == {0, 10, 174, 255}

(***************************************************************************)
(* The outcome of a call: it returned a value, or the process aborted      *)
(* inside it.  Unset marks a call that has not happened.                   *)
(***************************************************************************)
Returned(x) == [status |-> "returned", val |-> x]
Aborted == [status |-> "aborted"]
Unset == [status |-> "unset"]

(***************************************************************************)
(* CoreFoundation objects.                                                 *)
(***************************************************************************)
StringValue(t) == [kind |-> "string", str |-> Some(t), items |-> <<>>]
DataValue(s) == [kind |-> "data", str |-> s, items |-> <<>>]
DataBytes(b) == [kind |-> "data", str |-> None, items |-> b]
NumberValue(n) == [kind |-> "number", str |-> None, items |-> <<n>>]
ArrayValue(a) == [kind |-> "array", str |-> None, items |-> a]

StringValues == {StringValue(t) : t \in Texts}
DataValues == {DataValue(s) : s \in {None, Some(Garbage)}}

\* enum SecOID: the labels of a distinguished name; the top-level properties
\* are the keys "SubjectName", "IssuerName" and "Serial" of Context::dict
FieldOIDs == {"CommonName", "Country", "Org", "OrgUnit"}
UnknownOID == "Locality"

\* enum SecProperty: the keys of a property dictionary (Type, Value) and of
\* a section entry (Label, Value)
Property(type, value) == [type |-> type, value |-> value]
Entry(label, value) == [label |-> label, value |-> value]

\* struct Name
Name(cn, o, ou, c) ==
  [common_name |-> cn, organization |-> o, organization_unit |-> ou, country |-> c]

\* struct Context
Context(cert, dict, all) == [cert |-> cert, dict |-> dict, all |-> all]

\* struct SignatureContext(Context)
SignatureContext(c) == [ctx |-> c]

(***************************************************************************)
(* Context: reading the certificate's property dictionary.                 *)
(***************************************************************************)
\* get() without the comparison of the property's kind with the wanted kind
get_any_kind(c, key, wanted_kind) ==
  LET dict == c.dict[key] IN
  IF dict = None THEN None
  ELSE LET kind == dict[1].type IN
       IF kind = None THEN None
       ELSE LET value == dict[1].value IN
            IF value = None THEN None ELSE Some(value[1])

get(c, key, wanted_kind) ==
  LET dict == c.dict[key] IN
  IF dict = None THEN None
  ELSE LET kind == dict[1].type IN
       IF kind = None THEN None
       ELSE IF kind[1] # wanted_kind THEN None
       ELSE LET value == dict[1].value IN
            IF value = None THEN None ELSE Some(value[1])

get_as_section(c, key) == get(c, key, "section")

get_as_string(c, key) == get(c, key, "string")

RECURSIVE get_sub_value(_, _)
get_sub_value(values, search_label) ==
  IF values = <<>> THEN None
  ELSE LET subdict == Head(values)
           label == subdict.label
       IN IF label = None THEN None
          ELSE IF label[1] = search_label THEN subdict.value
          ELSE get_sub_value(Tail(values), search_label)

\* CFString::wrap_under_get_rule(t as _).to_string(): the cast is unchecked
to_string(t) == IF t.str = None THEN Aborted ELSE Returned(t.str[1])

\* Option<CFType>.map(|t| CFString::wrap_under_get_rule(t as _).to_string())
map_to_string(t) ==
  IF t = None THEN Returned(None)
  ELSE LET s == to_string(t[1]) IN
       IF s.status = "aborted" THEN Aborted ELSE Returned(Some(s.val))

get_string(values, concrete_label) ==
  map_to_string(get_sub_value(values, concrete_label))

\* vals.as_ref().and_then(|a| Self::get_string(&a, label))
and_then_get_string(vals, label) ==
  IF vals = None THEN Returned(None) ELSE get_string(vals[1].items, label)

name_for_field(c, field) ==
  LET vals == get_as_section(c, field)
      cn == and_then_get_string(vals, "CommonName")
      co == and_then_get_string(vals, "Country")
      o == and_then_get_string(vals, "Org")
      ou == and_then_get_string(vals, "OrgUnit")
  IN IF \E r \in {cn, co, o, ou} : r.status = "aborted" THEN Aborted
     ELSE Returned(Name(cn.val, o.val, ou.val, co.val))

serial(c) == map_to_string(get_as_string(c, "Serial"))

subject_name(c) == name_for_field(c, "SubjectName")

issuer_name(c) == name_for_field(c, "IssuerName")

(***************************************************************************)
(* Context: the certificate's thumbprint.                                  *)
(***************************************************************************)
HexDigits == <<"0", "1", "2", "3", "4", "5", "6", "7",
               "8", "9", "a", "b", "c", "d", "e", "f">>

\* format!("{:02x}", byte)
format_02x(byte) == HexDigits[(byte \div 16) + 1] \o HexDigits[(byte % 16) + 1]

RECURSIVE hex(_)
hex(bytes) ==
  IF bytes = <<>> THEN "" ELSE format_02x(Head(bytes)) \o hex(Tail(bytes))

RECURSIVE SumBytes(_)
SumBytes(bytes) ==
  IF bytes = <<>> THEN 0 ELSE Head(bytes) + 3 * SumBytes(Tail(bytes))

\* sha2::Sha256::digest: an external crate, stood in for by a short
\* deterministic digest of the bytes
Sha256Digest(bytes) ==
  <<(SumBytes(bytes) + Len(bytes)) % 256, (7 * SumBytes(bytes) + 13) % 256>>

sha256_thumbprint(c) == Returned(hex(Sha256Digest(c.cert)))

(***************************************************************************)
(* Context: the signing-information dictionary.                            *)
(***************************************************************************)
team_id(c) == map_to_string(c.all.TeamIdentifier)

cd_hash(c) ==
  LET value_ref == c.all.Unique IN
  IF value_ref = None THEN None ELSE Some(hex(value_ref[1].items))

info_plist(c) == c.all.PList

key(dict, k) == map_to_string(dict[k])

insert(m, k, v) == [x \in (DOMAIN m) \cup {k} |-> IF x = k THEN v ELSE m[x]]

\* if let Some(v) = value { ret.insert(k, v) }
insert_some(m, k, value) == IF value = None THEN m ELSE insert(m, k, value[1])

\* the body of additional_properties() with the team identifier inserted
\* inside the block that handles the Info.plist
properties_map_team_in_plist(cd, info, team) ==
  LET bundle_id == IF info = None THEN Returned(None)
                   ELSE key(info[1], "CFBundleIdentifier")
      short_version == IF info = None THEN Returned(None)
                       ELSE key(info[1], "CFBundleShortVersionString")
      bundle_version == IF info = None THEN Returned(None)
                        ELSE key(info[1], "CFBundleVersion")
  IN IF \E r \in {bundle_id, short_version, bundle_version, team} :
          r.status = "aborted"
     THEN Aborted
     ELSE LET r1 == insert_some(<<>>, "bundle_id", bundle_id.val)
              r2 == insert_some(r1, "short_version", short_version.val)
              r3 == insert_some(r2, "bundle_version", bundle_version.val)
              r4 == IF info = None THEN r3 ELSE insert_some(r3, "team_id", team.val)
          IN Returned(Some(insert(r4, "cd_hash", cd)))

\* the body of additional_properties() after the three reads
properties_map(cd, info, team) ==
  LET bundle_id == IF info = None THEN Returned(None)
                   ELSE key(info[1], "CFBundleIdentifier")
      short_version == IF info = None THEN Returned(None)
                       ELSE key(info[1], "CFBundleShortVersionString")
      bundle_version == IF info = None THEN Returned(None)
                        ELSE key(info[1], "CFBundleVersion")
  IN IF \E r \in {bundle_id, short_version, bundle_version, team} :
          r.status = "aborted"
     THEN Aborted
     ELSE LET r1 == insert_some(<<>>, "bundle_id", bundle_id.val)
              r2 == insert_some(r1, "short_version", short_version.val)
              r3 == insert_some(r2, "bundle_version", bundle_version.val)
              r4 == insert_some(r3, "team_id", team.val)
          IN Returned(Some(insert(r4, "cd_hash", cd)))

\* additional_properties() going on without the code-directory hash
\* instead of returning None
additional_properties_without_hash(c) ==
  LET cd == cd_hash(c)
      r == properties_map("", info_plist(c), team_id(c))
  IN IF cd # None THEN properties_map(cd[1], info_plist(c), team_id(c))
     ELSE IF r.status = "aborted" THEN Aborted
     ELSE Returned(Some([k \in (DOMAIN r.val[1]) \ {"cd_hash"} |-> r.val[1][k]]))

additional_properties(c) ==
  LET cd == cd_hash(c) IN
  IF cd = None THEN Returned(None)
  ELSE properties_map(cd[1], info_plist(c), team_id(c))

(***************************************************************************)
(* The facade of lib.rs: every method forwards to the platform type.       *)
(***************************************************************************)
Ops == {"subject_name", "issuer_name", "sha256_thumbprint", "serial",
        "additional_properties"}

NameOps == {"subject_name", "issuer_name"}

\* the OID subject_name() and issuer_name() pass to name_for_field
FieldOf(op) == IF op = "subject_name" THEN "SubjectName" ELSE "IssuerName"

\* the label OID name_for_field looks up for each field of the Name
NameFields ==
  [common_name |-> "CommonName", organization |-> "Org",
   organization_unit |-> "OrgUnit", country |-> "Country"]

SignatureContext_subject_name(sc) == subject_name(sc.ctx)
SignatureContext_issuer_name(sc) == issuer_name(sc.ctx)
SignatureContext_sha256_thumbprint(sc) == sha256_thumbprint(sc.ctx)
SignatureContext_serial(sc) == serial(sc.ctx)
SignatureContext_additional_properties(sc) == additional_properties(sc.ctx)

\* Result<T, Error>: ok and err are Options, exactly one of them Some
Ok(x) == [ok |-> Some(x), err |-> None]
Err(e) == [ok |-> None, err |-> Some(e)]
NoResult == [ok |-> None, err |-> None]

\* enum Error
Error(kind, code) == [kind |-> kind, code |-> code]

\* Result::map(|c| SignatureContext(c)) and Result::map(|v| CodeSignVerifier(v))
map_SignatureContext(r) ==
  IF r.ok # None THEN Ok(SignatureContext(r.ok[1])) ELSE Err(r.err[1])

(***************************************************************************)
(* The platform Verifier (macos/verifier.rs), the operating system behind  *)
(* it, and the inputs of the model.                                        *)
(***************************************************************************)
RECURSIVE SeqsUpTo(_, _)
SeqsUpTo(S, n) ==
  IF n = 0 THEN {<<>>}
  ELSE LET shorter == SeqsUpTo(S, n - 1) IN
       shorter \cup {Append(q, x) : q \in shorter, x \in S}

LabelOpts == {None} \cup {Some(l) : l \in FieldOIDs \cup {UnknownOID}}
ValueOpts == {None} \cup {Some(v) : v \in StringValues \cup DataValues}
Entries == {Entry(l, v) : l \in LabelOpts, v \in ValueOpts}
SectionsOfLen(n) == [1..n -> Entries]
SectionProp(a) == Some(Property(Some("section"), Some(ArrayValue(a))))

SampleSection ==
  <<Entry(Some("Country"), Some(StringValue("x"))),
    Entry(Some("Org"), Some(StringValue("y")))>>
SampleName == SectionProp(SampleSection)
SampleSerial == Some(Property(Some("string"), Some(StringValue("y"))))

\* what SecCertificateCopyValues can hold under the subject or issuer OID,
\* besides a section with its entries
OtherNameProps ==
  {None}
    \cup {Some(Property(None, v)) : v \in {None, Some(ArrayValue(SampleSection))}}
    \cup {Some(Property(Some("string"), v)) : v \in {None, Some(StringValue("x"))}}
    \cup {Some(Property(Some("section"), None))}

\* and under the serial-number OID
SerialProps ==
  {None}
    \cup {Some(Property(None, Some(StringValue("x"))))}
    \cup {Some(Property(Some("string"), None))}
    \cup {Some(Property(Some("string"), Some(v))) : v \in StringValues}
    \cup {Some(Property(Some("data"), Some(v))) : v \in DataValues}

Dict(subject, issuer, ser) ==
  [SubjectName |-> subject, IssuerName |-> issuer, Serial |-> ser]
SampleDict == Dict(SampleName, SampleName, SampleSerial)

Certs == {<<48, 1>>, <<48, 130, 2>>}
SampleCert == <<48, 1>>

\* the signing information SecCodeCopySigningInformation returns
TextOpts == {None} \cup {Some(v) : v \in StringValues}
PLists ==
  [CFBundleIdentifier : TextOpts, CFBundleShortVersionString : TextOpts,
   CFBundleVersion : TextOpts]
Alls ==
  [Unique : {None} \cup {Some(DataBytes(b)) : b \in SeqsUpTo(Bytes, MaxHashLen)},
   TeamIdentifier : TextOpts,
   PList : {None} \cup {Some(d) : d \in PLists},
   PlatformIdentifier : {None, Some(NumberValue(15))}]
All(unique, team, plist, platform) ==
  [Unique |-> unique, TeamIdentifier |-> team, PList |-> plist,
   PlatformIdentifier |-> platform]
\* /sbin/ping: shipped with the system, no Info.plist, no team
SampleAll == All(Some(DataBytes(<<174, 10>>)), None, None, Some(NumberValue(15)))

\* a Context with the property p under the subject or the issuer OID
NameContext(field, p) ==
  Context(SampleCert,
          IF field = "SubjectName" THEN Dict(p, SampleName, SampleSerial)
          ELSE Dict(SampleName, p, SampleSerial),
          SampleAll)

SampleContexts ==
  {Context(SampleCert, SampleDict, SampleAll),
   Context(<<48, 130, 2>>, Dict(SampleName, None, None),
           All(Some(DataBytes(<<255>>)), Some(StringValue("x")),
               Some([CFBundleIdentifier |-> Some(StringValue("y")),
                     CFBundleShortVersionString |-> None,
                     CFBundleVersion |-> Some(StringValue("x"))]),
               None)),
   Context(SampleCert, Dict(None, SampleName, SampleSerial),
           All(None, None, None, None))}

Paths == {"/sbin/ping", "self", "missing"}
Pids == {1, 2}
Requirements == {"", "anchor apple generic", "anchor unrelated"}

\* Verifier::for_file and Verifier::for_pid
Verifier_for_file(path) ==
  IF path = "missing" THEN Err(Error("InvalidPath", 0)) ELSE Ok(path)

Verifier_for_pid(pid) ==
  IF pid = 1 THEN Ok("pid 1") ELSE Err(Error("InvalidPath", 0))

\* Verifier::verify: every result the trust provider can give for the target
Verifier_verify(target, requirement) ==
  IF target = "self" THEN {Err(Error("Unsigned", 0))}
  ELSE IF requirement = "anchor unrelated" THEN {Err(Error("OsError", -67050))}
  ELSE {Ok(c) : c \in SampleContexts} \cup {Err(Error("LeafCertNotFound", 0))}

(***************************************************************************)
(* State.  verifier[v] is the CodeSignVerifier value v, outcome[v] what    *)
(* verify returned for it and nverify[v] how often it was passed to        *)
(* verify.  ret is the caller's last accessor call and first[v][op] what   *)
(* op returned the first time it was called on v's context.  pc, local     *)
(* and tret are the threads of the concurrent specification: where each    *)
(* is in its call, its locals and what its call returned; overlap tells    *)
(* whether another thread was inside a call during the call.               *)
(***************************************************************************)
Unborn == [state |-> "unborn", target |-> ""]
NoCall == [v |-> 0, op |-> "none", res |-> Unset]
EmptyName == Name(None, None, None, None)
NoLocal ==
  [v |-> 0, op |-> "none", vals |-> None, name |-> EmptyName, data |-> <<>>,
   cd |-> None, info |-> None, team |-> None, out |-> None, overlap |-> FALSE]
NoThreadCall == [v |-> 0, op |-> "none", res |-> Unset, overlap |-> FALSE]

InitThreads ==
  /\ pc = [t \in Threads |-> "idle"]
  /\ local = [t \in Threads |-> NoLocal]
  /\ tret = [t \in Threads |-> NoThreadCall]

Init ==
  /\ verifier = [v \in VerifierIds |-> Unborn]
  /\ outcome = [v \in VerifierIds |-> NoResult]
  /\ nverify = [v \in VerifierIds |-> 0]
  /\ ret = NoCall
  /\ first = [v \in VerifierIds |-> [op \in Ops |-> Unset]]
  /\ crashed = FALSE
  /\ InitThreads

\* the state once verifier 1 has been verified with the context c
Verified(c) ==
  /\ verifier = [v \in VerifierIds |->
                   IF v = 1 THEN [state |-> "consumed", target |-> "/sbin/ping"]
                   ELSE Unborn]
  /\ outcome = [v \in VerifierIds |->
                  IF v = 1 THEN map_SignatureContext(Ok(c)) ELSE NoResult]
  /\ nverify = [v \in VerifierIds |-> IF v = 1 THEN 1 ELSE 0]
  /\ ret = NoCall
  /\ first = [v \in VerifierIds |-> [op \in Ops |-> Unset]]
  /\ crashed = FALSE
  /\ InitThreads

InitName ==
  \/ \E field \in {"SubjectName", "IssuerName"}, n \in 0..MaxEntries :
       \E a \in SectionsOfLen(n) : Verified(NameContext(field, SectionProp(a)))
  \/ \E field \in {"SubjectName", "IssuerName"}, p \in OtherNameProps :
       Verified(NameContext(field, p))
  \/ \E p \in SerialProps :
       Verified(Context(SampleCert, Dict(SampleName, None, p), SampleAll))

InitProps == \E a \in Alls : Verified(Context(SampleCert, SampleDict, a))

\* contexts with at most one entry in the subject's section
InitFrame ==
  \E cert \in Certs, n \in 0..1, ser \in {None, SampleSerial},
     all \in {c.all : c \in SampleContexts} :
    \E a \in SectionsOfLen(n) :
      Verified(Context(cert, Dict(SectionProp(a), SampleName, ser), all))

\* the sample contexts, one whose subject has an entry without a label and
\* one whose common name is not text
ConcContexts ==
  SampleContexts
    \cup {NameContext("SubjectName",
                      SectionProp(<<Entry(None, None),
                                    Entry(Some("CommonName"), Some(StringValue("x")))>>)),
          NameContext("SubjectName",
                      SectionProp(<<Entry(Some("Org"), Some(StringValue("y"))),
                                    Entry(Some("CommonName"), Some(DataValue(None)))>>))}

InitConc == \E c \in ConcContexts : Verified(c)

(***************************************************************************)
(* CodeSignVerifier.                                                       *)
(***************************************************************************)
Created(v, r) ==
  /\ verifier[v].state = "unborn"
  /\ verifier' = [verifier EXCEPT ![v] =
                    IF r.ok # None THEN [state |-> "ready", target |-> r.ok[1]]
                    ELSE [state |-> "invalid", target |-> ""]]
  /\ UNCHANGED <<outcome, nverify, ret, first, crashed, pc, local, tret>>

ForFile(v, path) == ~crashed /\ Created(v, Verifier_for_file(path))

ForPid(v, pid) == ~crashed /\ Created(v, Verifier_for_pid(pid))

\* verify(&self, requirement): the verifier is borrowed and stays usable
Verify_borrowed(v, requirement) ==
  /\ ~crashed
  /\ verifier[v].state = "ready"
  /\ \E r \in Verifier_verify(verifier[v].target, requirement) :
       outcome' = [outcome EXCEPT ![v] = map_SignatureContext(r)]
  /\ nverify' = [nverify EXCEPT ![v] = @ + 1]
  /\ UNCHANGED <<verifier, ret, first, crashed, pc, local, tret>>

\* verify(self, requirement): self is moved into the call
Verify(v, requirement) ==
  /\ ~crashed
  /\ verifier[v].state = "ready"
  /\ \E r \in Verifier_verify(verifier[v].target, requirement) :
       outcome' = [outcome EXCEPT ![v] = map_SignatureContext(r)]
  /\ verifier' = [verifier EXCEPT ![v].state = "consumed"]
  /\ nverify' = [nverify EXCEPT ![v] = @ + 1]
  /\ UNCHANGED <<ret, first, crashed, pc, local, tret>>

(***************************************************************************)
(* SignatureContext: the accessors, called by one caller.                  *)
(***************************************************************************)
Access(v, op, r) ==
  /\ ~crashed
  /\ outcome[v].ok # None
  /\ ret' = [v |-> v, op |-> op, res |-> r]
  /\ crashed' = (r.status = "aborted")
  /\ UNCHANGED <<verifier, outcome, nverify, pc, local, tret>>

CallSubjectName(v) ==
  /\ outcome[v].ok # None
  /\ Access(v, "subject_name", SignatureContext_subject_name(outcome[v].ok[1]))

CallIssuerName(v) ==
  /\ outcome[v].ok # None
  /\ Access(v, "issuer_name", SignatureContext_issuer_name(outcome[v].ok[1]))

\* a thumbprint that keeps the digest in the Context in place of the
\* certificate's bytes
CallSha256Thumbprint_caching(v) ==
  /\ ~crashed
  /\ outcome[v].ok # None
  /\ ret' = [v |-> v, op |-> "sha256_thumbprint",
             res |-> SignatureContext_sha256_thumbprint(outcome[v].ok[1])]
  /\ outcome' = [outcome EXCEPT ![v].ok[1].ctx.cert = Sha256Digest(@)]
  /\ UNCHANGED <<verifier, nverify, crashed, pc, local, tret>>

CallSha256Thumbprint(v) ==
  /\ outcome[v].ok # None
  /\ Access(v, "sha256_thumbprint",
            SignatureContext_sha256_thumbprint(outcome[v].ok[1]))

CallSerial(v) ==
  /\ outcome[v].ok # None
  /\ Access(v, "serial", SignatureContext_serial(outcome[v].ok[1]))

CallAdditionalProperties(v) ==
  /\ outcome[v].ok # None
  /\ Access(v, "additional_properties",
            SignatureContext_additional_properties(outcome[v].ok[1]))

(***************************************************************************)
(* SignatureContext: the accessors, called by several threads on a shared  *)
(* Context.  A call is a sequence of reads of the native structures, each  *)
(* one step, with the other threads' steps in between.                     *)
(***************************************************************************)
FirstStep(op) ==
  CASE op \in {"subject_name", "issuer_name"} -> "get_as_section"
    [] op = "serial" -> "get_as_string"
    [] op = "sha256_thumbprint" -> "copy_data"
    [] op = "additional_properties" -> "cd_hash"

\* the fields of the Name literal, in the order they are evaluated
NextField(f) ==
  CASE f = "common_name" -> "country"
    [] f = "country" -> "organization"
    [] f = "organization" -> "organization_unit"
    [] f = "organization_unit" -> "return"

LocalCtx(t) == outcome[local[t].v].ok[1].ctx

\* thread t goes on to the step `to` with the locals l
Goto(t, to, l) ==
  /\ pc' = [pc EXCEPT ![t] = to]
  /\ local' = [local EXCEPT ![t] = l]
  /\ UNCHANGED <<verifier, outcome, nverify, ret, first, crashed, tret>>

\* the process aborts in thread t's call
Abort(t) ==
  /\ crashed' = TRUE
  /\ tret' = [tret EXCEPT ![t] = [v |-> local[t].v, op |-> local[t].op,
                                  res |-> Aborted, overlap |-> local[t].overlap]]
  /\ pc' = [pc EXCEPT ![t] = "aborted"]
  /\ UNCHANGED <<verifier, outcome, nverify, ret, first, local>>

\* thread t goes on with what the read r returned, or aborts with it
Read(t, r, to, l) == IF r.status = "aborted" THEN Abort(t) ELSE Goto(t, to, l)

BeginCall(t, v, op) ==
  /\ ~crashed
  /\ pc[t] = "idle"
  /\ outcome[v].ok # None
  /\ pc' = [pc EXCEPT ![t] = FirstStep(op)]
  /\ local' = [u \in Threads |->
                IF u = t
                THEN [NoLocal EXCEPT !.v = v, !.op = op,
                                     !.overlap = \E w \in Threads : pc[w] # "idle"]
                ELSE IF pc[u] # "idle" THEN [local[u] EXCEPT !.overlap = TRUE]
                ELSE local[u]]
  /\ tret' = [tret EXCEPT ![t] = NoThreadCall]
  /\ UNCHANGED <<verifier, outcome, nverify, ret, first, crashed>>

\* get_as_section() with the array moved out of the property dictionary
GetAsSection_taking(t) ==
  /\ ~crashed
  /\ pc[t] = "get_as_section"
  /\ LET field == FieldOf(local[t].op)
         vals == get_as_section(LocalCtx(t), field)
     IN /\ pc' = [pc EXCEPT ![t] = "common_name"]
        /\ local' = [local EXCEPT ![t].vals = vals]
        /\ outcome' = [outcome EXCEPT ![local[t].v].ok[1].ctx.dict[field] =
                         IF vals = None THEN @ ELSE SectionProp(<<>>)]
  /\ UNCHANGED <<verifier, nverify, ret, first, crashed, tret>>

GetAsSection(t) ==
  /\ ~crashed
  /\ pc[t] = "get_as_section"
  /\ Goto(t, "common_name",
          [local[t] EXCEPT !.vals = get_as_section(LocalCtx(t), FieldOf(local[t].op))])

GetString(t) ==
  /\ ~crashed
  /\ pc[t] \in DOMAIN NameFields
  /\ LET r == and_then_get_string(local[t].vals, NameFields[pc[t]]) IN
     Read(t, r, NextField(pc[t]), [local[t] EXCEPT !.name[pc[t]] = r.val])

ReturnName(t) ==
  /\ ~crashed
  /\ pc[t] = "return"
  /\ local[t].op \in NameOps
  /\ Goto(t, "done", [local[t] EXCEPT !.out = local[t].name])

GetAsString(t) ==
  /\ ~crashed
  /\ pc[t] = "get_as_string"
  /\ LET r == map_to_string(get_as_string(LocalCtx(t), "Serial")) IN
     Read(t, r, "done", [local[t] EXCEPT !.out = r.val])

CopyData(t) ==
  /\ ~crashed
  /\ pc[t] = "copy_data"
  /\ Goto(t, "digest", [local[t] EXCEPT !.data = LocalCtx(t).cert])

Digest(t) ==
  /\ ~crashed
  /\ pc[t] = "digest"
  /\ Goto(t, "done", [local[t] EXCEPT !.out = hex(Sha256Digest(local[t].data))])

CdHash(t) ==
  /\ ~crashed
  /\ pc[t] = "cd_hash"
  /\ LET cd == cd_hash(LocalCtx(t)) IN
     IF cd = None THEN Goto(t, "done", [local[t] EXCEPT !.out = None])
     ELSE Goto(t, "info_plist", [local[t] EXCEPT !.cd = cd])

InfoPlist(t) ==
  /\ ~crashed
  /\ pc[t] = "info_plist"
  /\ Goto(t, "team_id", [local[t] EXCEPT !.info = info_plist(LocalCtx(t))])

TeamId(t) ==
  /\ ~crashed
  /\ pc[t] = "team_id"
  /\ LET r == team_id(LocalCtx(t)) IN
     Read(t, r, "insert", [local[t] EXCEPT !.team = r.val])

Insert(t) ==
  /\ ~crashed
  /\ pc[t] = "insert"
  /\ LET r == properties_map(local[t].cd[1], local[t].info, Returned(local[t].team)) IN
     Read(t, r, "done", [local[t] EXCEPT !.out = r.val])

Return(t) ==
  /\ ~crashed
  /\ pc[t] = "done"
  /\ tret' = [tret EXCEPT ![t] =
                [v |-> local[t].v, op |-> local[t].op, res |-> Returned(local[t].out),
                 overlap |-> local[t].overlap]]
  /\ pc' = [pc EXCEPT ![t] = "idle"]
  /\ local' = [local EXCEPT ![t] = NoLocal]
  /\ UNCHANGED <<verifier, outcome, nverify, ret, first, crashed>>

(***************************************************************************)
(* Specifications.                                                         *)
(***************************************************************************)
Next ==
  \/ \E v \in VerifierIds, path \in Paths : ForFile(v, path)
  \/ \E v \in VerifierIds, pid \in Pids : ForPid(v, pid)
  \/ \E v \in VerifierIds, requirement \in Requirements : Verify(v, requirement)

Spec == Init /\ [][Next]_vars

\* first is a history of the calls: Observed records what a call returned
\* if it is the first call of its accessor on its context
Observed ==
  first' = [first EXCEPT ![ret'.v][ret'.op] = IF @ = Unset THEN ret'.res ELSE @]

NextName ==
  \/ (\E v \in VerifierIds : CallSubjectName(v)) /\ UNCHANGED first
  \/ (\E v \in VerifierIds : CallIssuerName(v)) /\ UNCHANGED first
  \/ (\E v \in VerifierIds : CallSerial(v)) /\ UNCHANGED first

SpecName == InitName /\ [][NextName]_vars

NextProps == (\E v \in VerifierIds : CallAdditionalProperties(v)) /\ UNCHANGED first

SpecProps == InitProps /\ [][NextProps]_vars

NextFrame ==
  \/ (\E v \in VerifierIds : CallSubjectName(v)) /\ Observed
  \/ (\E v \in VerifierIds : CallIssuerName(v)) /\ Observed
  \/ (\E v \in VerifierIds : CallSha256Thumbprint(v)) /\ Observed
  \/ (\E v \in VerifierIds : CallSerial(v)) /\ Observed
  \/ (\E v \in VerifierIds : CallAdditionalProperties(v)) /\ Observed

SpecFrame == InitFrame /\ [][NextFrame]_vars

NextConc ==
  \/ \E t \in Threads, v \in VerifierIds, op \in Ops : BeginCall(t, v, op)
  \/ \E t \in Threads : GetAsSection(t)
  \/ \E t \in Threads : GetString(t)
  \/ \E t \in Threads : ReturnName(t)
  \/ \E t \in Threads : GetAsString(t)
  \/ \E t \in Threads : CopyData(t)
  \/ \E t \in Threads : Digest(t)
  \/ \E t \in Threads : CdHash(t)
  \/ \E t \in Threads : InfoPlist(t)
  \/ \E t \in Threads : TeamId(t)
  \/ \E t \in Threads : Insert(t)
  \/ \E t \in Threads : Return(t)

SpecConc == InitConc /\ [][NextConc]_vars

(***************************************************************************)
(* Properties.  RetCtx is the Context the caller's last call was made on.  *)
(***************************************************************************)
RetCtx == outcome[ret.v].ok[1].ctx

\* the property is a section with its array of entries
IsSection(p) ==
  /\ p # None
  /\ p[1].type = Some("section")
  /\ p[1].value # None

Carriers(a, label) == {i \in 1..Len(a) : a[i].label = Some(label)}

IsText(value) == value # None /\ value[1].kind = "string"

\* C1: additional_properties() returns None exactly when the signing
\* information has no code-directory hash; otherwise it returns a map that
\* holds the key cd_hash, so never an empty map.
C1_NoneIffNoCdHash ==
  ret.op = "additional_properties" =>
    IF RetCtx.all.Unique = None
    THEN ret.res = Returned(None)
    ELSE /\ ret.res.status = "returned"
         /\ ret.res.val # None
         /\ "cd_hash" \in DOMAIN ret.res.val[1]
         /\ ret.res.val[1]["cd_hash"] = hex(RetCtx.all.Unique[1].items)

C1_Witness ==
  /\ ret.op = "additional_properties"
  /\ RetCtx.all.Unique # None
  /\ RetCtx.all.TeamIdentifier = None
  /\ RetCtx.all.PList = None
  /\ ret.res.status = "returned"
  /\ ret.res.val # None
  /\ DOMAIN ret.res.val[1] = {"cd_hash"}

\* C2: when the signing information holds a platform identifier, the map
\* additional_properties() returns holds the key platform_id with that
\* identifier as text.
C2_PlatformId ==
  (/\ ret.op = "additional_properties"
   /\ ret.res.status = "returned"
   /\ ret.res.val # None
   /\ RetCtx.all.PlatformIdentifier # None)
    => /\ "platform_id" \in DOMAIN ret.res.val[1]
       /\ ret.res.val[1]["platform_id"] = "15"

\* C3: a field whose label is carried by exactly one entry of the section,
\* with a text value, is resolved to that text whatever the other entries
\* are: an entry without a label never turns it into None.
C3_FieldsIndependent ==
  (/\ ret.op \in NameOps
   /\ ret.res.status = "returned"
   /\ IsSection(RetCtx.dict[FieldOf(ret.op)]))
    => LET a == RetCtx.dict[FieldOf(ret.op)][1].value[1].items IN
       \A f \in DOMAIN NameFields :
         \A i \in 1..Len(a) :
           (Carriers(a, NameFields[f]) = {i} /\ IsText(a[i].value))
             => ret.res.val[f] = Some(a[i].value[1].str[1])

\* C4: a recognized field whose entry value is not text is None in the Name
\* returned; the value is never returned as text and the call never fails.
C4_NonTextIsNone ==
  (/\ ret.op \in NameOps
   /\ IsSection(RetCtx.dict[FieldOf(ret.op)]))
    => LET a == RetCtx.dict[FieldOf(ret.op)][1].value[1].items IN
       \A f \in DOMAIN NameFields :
         \A i \in 1..Len(a) :
           (/\ Carriers(a, NameFields[f]) = {i}
            /\ a[i].value # None
            /\ ~IsText(a[i].value))
             => /\ ret.res.status = "returned"
                /\ ret.res.val[f] = None

Permuted(a) ==
  {[i \in 1..Len(a) |-> a[f[i]]] :
     f \in {g \in [1..Len(a) -> 1..Len(a)] :
              \A i, j \in 1..Len(a) : g[i] = g[j] => i = j}}

InsertAt(a, i, e) == SubSeq(a, 1, i - 1) \o <<e>> \o SubSeq(a, i, Len(a))

WithSection(c, field, a) ==
  [c EXCEPT !.dict[field] = Some(Property(Some("section"), Some(ArrayValue(a))))]

\* C5: for a section in which each recognized label occurs at most once,
\* the Name is the same for every permutation of the entries and with an
\* entry of an unrecognized label inserted at any place.
C5_ByLabelNotPosition ==
  (/\ ret.op \in NameOps
   /\ IsSection(RetCtx.dict[FieldOf(ret.op)]))
    => LET field == FieldOf(ret.op)
           a == RetCtx.dict[field][1].value[1].items
       IN (\A l \in FieldOIDs : Cardinality(Carriers(a, l)) <= 1)
            => /\ \A b \in Permuted(a) :
                    name_for_field(WithSection(RetCtx, field, b), field) = ret.res
               /\ \A i \in 1..(Len(a) + 1), v \in ValueOpts :
                    name_for_field(
                      WithSection(RetCtx, field,
                                  InsertAt(a, i, Entry(Some(UnknownOID), v))),
                      field) = ret.res

\* The same holds of the sections whose entries all carry a label.
LabelledByLabelNotPosition ==
  (/\ ret.op \in NameOps
   /\ IsSection(RetCtx.dict[FieldOf(ret.op)]))
    => LET field == FieldOf(ret.op)
           a == RetCtx.dict[field][1].value[1].items
       IN (/\ \A l \in FieldOIDs : Cardinality(Carriers(a, l)) <= 1
           /\ \A i \in 1..Len(a) : a[i].label # None)
            => /\ \A b \in Permuted(a) :
                    name_for_field(WithSection(RetCtx, field, b), field) = ret.res
               /\ \A i \in 1..(Len(a) + 1), v \in ValueOpts :
                    name_for_field(
                      WithSection(RetCtx, field,
                                  InsertAt(a, i, Entry(Some(UnknownOID), v))),
                      field) = ret.res

\* C7: a CodeSignVerifier is passed to verify at most once, each verify
\* yields exactly one of a SignatureContext and an Error, and a
\* SignatureContext exists only as the result of a verify that succeeded.
C7_VerifyOneShot ==
  \A v \in VerifierIds :
    /\ nverify[v] <= 1
    /\ nverify[v] = 1 => (outcome[v].ok = None) # (outcome[v].err = None)
    /\ nverify[v] = 1 => verifier[v].state = "consumed"
    /\ nverify[v] = 0 => outcome[v] = NoResult

C7_Witness ==
  \E v, w \in VerifierIds :
    /\ nverify[v] = 1 /\ outcome[v].ok # None
    /\ nverify[w] = 1 /\ outcome[w].err # None

\* C9: serial() is Some(text) exactly when the serial-number property is
\* there with kind "string" and a value, else None; subject_name() and
\* issuer_name() return a Name of four None when the property is absent,
\* has no type, has no value or is not of kind "section".
C9_TopLevelKind ==
  /\ ret.op = "serial" =>
       LET p == RetCtx.dict.Serial IN
       IF p # None /\ p[1].type = Some("string") /\ p[1].value # None
       THEN ret.res = Returned(Some(p[1].value[1].str[1]))
       ELSE ret.res = Returned(None)
  /\ (ret.op \in NameOps /\ ~IsSection(RetCtx.dict[FieldOf(ret.op)]))
       => ret.res = Returned(Name(None, None, None, None))

C9_Witness ==
  /\ ret.op = "serial"
  /\ RetCtx.dict.Serial # None
  /\ RetCtx.dict.Serial[1].type = Some("data")
  /\ RetCtx.dict.Serial[1].value # None
  /\ ret.res = Returned(None)

HasKey(info, k) == info # None /\ info[1][k] # None

\* C10: in the map additional_properties() returns, bundle_id,
\* short_version and bundle_version are there exactly when the signing
\* information holds an Info.plist with the matching key, and team_id
\* exactly when it holds a team identifier, with or without an Info.plist;
\* nothing missing removes another key or makes the result None.
C10_OptionalKeys ==
  (ret.op = "additional_properties" /\ RetCtx.all.Unique # None)
    => /\ ret.res.status = "returned"
       /\ ret.res.val # None
       /\ LET m == ret.res.val[1]
              all == RetCtx.all
              plistKey == [bundle_id |-> "CFBundleIdentifier",
                           short_version |-> "CFBundleShortVersionString",
                           bundle_version |-> "CFBundleVersion"]
          IN /\ \A k \in DOMAIN plistKey :
                  /\ k \in DOMAIN m <=> HasKey(all.PList, plistKey[k])
                  /\ k \in DOMAIN m => m[k] = all.PList[1][plistKey[k]][1].str[1]
             /\ "team_id" \in DOMAIN m <=> all.TeamIdentifier # None
             /\ "team_id" \in DOMAIN m => m["team_id"] = all.TeamIdentifier[1].str[1]
             /\ "cd_hash" \in DOMAIN m

C10_Witness ==
  /\ ret.op = "additional_properties"
  /\ RetCtx.all.PList = None
  /\ RetCtx.all.TeamIdentifier # None
  /\ ret.res.status = "returned"
  /\ ret.res.val # None
  /\ DOMAIN ret.res.val[1] = {"team_id", "cd_hash"}

\* C6: no accessor changes the Context, and whatever calls came before,
\* every accessor, sha256_thumbprint() among them, returns what it returned
\* on its first call.
C6_AccessorsReadOnly ==
  [][/\ outcome' = outcome
     /\ verifier' = verifier
     /\ ret'.op # "none" => ret'.res = first'[ret'.v][ret'.op]]_vars

C6_Witness ==
  /\ ret.op = "sha256_thumbprint"
  /\ ret.res.status = "returned"
  /\ \A op \in Ops : first[ret.v][op].status = "returned"

\* what a call of op returns when it runs alone on the Context c
Alone(c, op) ==
  CASE op = "subject_name" -> SignatureContext_subject_name(SignatureContext(c))
    [] op = "issuer_name" -> SignatureContext_issuer_name(SignatureContext(c))
    [] op = "sha256_thumbprint" ->
         SignatureContext_sha256_thumbprint(SignatureContext(c))
    [] op = "serial" -> SignatureContext_serial(SignatureContext(c))
    [] op = "additional_properties" ->
         SignatureContext_additional_properties(SignatureContext(c))

\* C8: accessor calls made on one Context by several threads at once, in
\* any interleaving, each end as the same call ends when it runs alone,
\* and leave the Context unchanged.
C8_ConcurrentAccessors ==
  [][/\ outcome' = outcome
     /\ \A t \in Threads :
          (tret'[t] # tret[t] /\ tret'[t].op # "none")
            => tret'[t].res = Alone(outcome[tret'[t].v].ok[1].ctx, tret'[t].op)]_vars

C8_Witness ==
  \E t, u \in Threads :
    /\ t # u
    /\ tret[t].op = "subject_name"
    /\ tret[t].res.status = "returned"
    /\ tret[t].res.val # EmptyName
    /\ tret[t].overlap
    /\ pc[u] = "insert"
    /\ local[u].v = tret[t].v

====
